---- MODULE Spec2Model ----
(***************************************************************************)
(* go-scad: a turtle-graphics command stream is turned into OpenSCAD       *)
(* polygon() blocks (src/main.go).  The model follows jsToScad: the turtle *)
(* state variables, one action per function registered with vm.Set, and    *)
(* writePolygon as a recursive operator over the traversal loop.           *)
(*                                                                         *)
(* Numbers.  The program computes with float64.  Here every angle is an    *)
(* integer number of degrees and every coordinate an integer; a vertex     *)
(* handed to outPoint is kept in the unevaluated form                      *)
(*     (X + Thickness/2*degCos(angle), Y + Thickness/2*degSin(angle))      *)
(* as the record [X, Y, Thickness, angle], so nothing is rounded.  The     *)
(* turtle heading is a multiple of 90 (TurnArgs), where degCos and degSin  *)
(* are -1, 0 or 1, and setpos is offered only displacements whose atan2 is *)
(* a multiple of 45 degrees.                                               *)
(***************************************************************************)
EXTENDS Integers, Sequences, FiniteSets

\* ------------------------------------------------------------------ bounds

\* Longest script (number of calls the script makes) that is explored.
MaxCmds == 5

\* Arguments the script passes.
ForwardArgs == {0, 1}
TurnArgs == {90, 180}
PenSizeArgs == {0, 2}
EndCapArgs == {-3, 2, 3, 4}
PosArgs == {0, 1}

\* ------------------------------------------------------------------- state

VARIABLES
    turtlePendown,      \* main.go:296
    turtlePenSize,      \* main.go:297
    turtleEndCapSides,  \* main.go:298
    turtleX,            \* main.go:299
    turtleY,            \* main.go:300
    turtleHeading,      \* main.go:301
    turtlePolygon,      \* main.go:302  [Points, Headings]
    output,             \* main.go:127  the text built so far, as tokens
    indentLevel,        \* main.go:129
    stdout,             \* what main has printed (fmt.Print, main.go:123)
    pc,                 \* "running" | "done" | "fatal"
    fatalMsg,           \* which log.Fatal ended the run ("" if none)
    last,               \* the call the script made last: [op, ret]
    sumTurn,            \* history: sum of left() arguments minus right() ones
    nCmds,              \* number of calls made so far
    loop,               \* main.go:186-284  writePolygon's loop: [pc, i, d, visits]
    fmt                 \* main.go:98-108   formatFloat: [pc, n, str]

turtle == <<turtlePendown, turtlePenSize, turtleEndCapSides, turtleX, turtleY,
            turtleHeading, turtlePolygon>>
vars == <<turtlePendown, turtlePenSize, turtleEndCapSides, turtleX, turtleY,
          turtleHeading, turtlePolygon, output, indentLevel, stdout, pc,
          fatalMsg, last, sumTurn, nCmds, loop, fmt>>

\* writePolygon and formatFloat when they are followed step by step.
steps == <<loop, fmt>>

\* --------------------------------------------------------------- arithmetic

Abs(n) == IF n < 0 THEN -n ELSE n

\* Go's integer / and %: truncated toward zero, remainder with the sign of a.
GoDiv(a, b) == IF (a >= 0) = (b > 0) THEN Abs(a) \div Abs(b) ELSE -(Abs(a) \div Abs(b))
GoRem(a, b) == a - b * GoDiv(a, b)

\* degCos / degSin on the multiples of 90 degrees.
degCos(deg) ==
    CASE deg % 360 = 0 -> 1
      [] deg % 360 = 180 -> -1
      [] OTHER -> 0

degSin(deg) ==
    CASE deg % 360 = 90 -> 1
      [] deg % 360 = 270 -> -1
      [] OTHER -> 0

\* radToDeg(math.Atan2(dy, dx)) where it is a multiple of 45 degrees.
Atan2Exact(dy, dx) == dy = 0 \/ dx = 0 \/ Abs(dy) = Abs(dx)

radToDegAtan2(dy, dx) ==
    CASE dy = 0 /\ dx >= 0 -> 0
      [] dy = 0 /\ dx < 0 -> 180
      [] dx = 0 /\ dy > 0 -> 90
      [] dx = 0 /\ dy < 0 -> -90
      [] dx > 0 /\ dy > 0 -> 45
      [] dx < 0 /\ dy > 0 -> 135
      [] dx > 0 /\ dy < 0 -> -45
      [] OTHER -> -135

\* ------------------------------------------------------------------ output

\* output is a sequence of tokens, one per piece of text the closures append.
outBeginPolygon(indent) == <<[t |-> "beginPolygon", indent |-> indent]>>

outNewLine(indent) == <<[t |-> "newline", indent |-> indent + 1]>>

\* outPoint(x, y, isLast): "[x,y]," followed by a space unless isLast.
outPoint(at, isLast) == <<[t |-> "point", at |-> at, isLast |-> isLast]>>

outEndPolygon(indent) == <<[t |-> "endPolygon", indent |-> indent]>>

outBeginBlock(indent) == <<[t |-> "beginBlock", indent |-> indent]>>

outEndBlock(indent) == <<[t |-> "endBlock", indent |-> indent]>>

\* The vertex (point.X + point.Thickness/2*degCos(angle),
\*             point.Y + point.Thickness/2*degSin(angle)), unevaluated.
Offset(point, angle) ==
    [X |-> point.X, Y |-> point.Y, Thickness |-> point.Thickness, angle |-> angle]

\* float64(j) * 360 / float64(sides); exact when sides divides 360.
FacetAngle(j, sides) == GoDiv(j * 360, sides)

\* A degenerate cap that closes the circle by repeating its first vertex.
DegenerateCapClosed(point) ==
    [k \in 1..(point.EndCapSides + 1) |->
        outPoint(Offset(point, FacetAngle(k - 1, point.EndCapSides)),
                 k - 1 = point.EndCapSides)[1]]

\* Degenerate case: just draw an end cap (for j := 0; j < EndCapSides; j++).
DegenerateCap(point) ==
    [k \in 1..point.EndCapSides |->
        outPoint(Offset(point, FacetAngle(k - 1, point.EndCapSides)),
                 k - 1 = point.EndCapSides - 1)[1]]

\* A begin cap that turns the other way round.
BeginCapCounterClockwise(point, headingBegin) ==
    [k \in 1..(GoDiv(point.EndCapSides, 2) + 1) |->
        outPoint(Offset(point, headingBegin - 90 + FacetAngle(k - 1, point.EndCapSides)),
                 k - 1 = GoDiv(point.EndCapSides, 2))[1]]

\* Draw begin cap (for j := 0; j <= EndCapSides/2; j++).
BeginCap(point, headingBegin) ==
    [k \in 1..(GoDiv(point.EndCapSides, 2) + 1) |->
        outPoint(Offset(point, headingBegin - 90 - FacetAngle(k - 1, point.EndCapSides)),
                 k - 1 = GoDiv(point.EndCapSides, 2))[1]]

\* An end cap whose loop stops one vertex early (j < EndCapSides/2).
EndCapShort(point, headingEnd) ==
    [k \in 1..GoDiv(point.EndCapSides, 2) |->
        outPoint(Offset(point, headingEnd + 90 - FacetAngle(k - 1, point.EndCapSides)),
                 k - 1 = GoDiv(point.EndCapSides, 2) - 1)[1]]

\* An end cap that turns the other way, from -90 to +90.
EndCapMirrored(point, headingEnd) ==
    [k \in 1..(GoDiv(point.EndCapSides, 2) + 1) |->
        outPoint(Offset(point, headingEnd - 90 + FacetAngle(k - 1, point.EndCapSides)),
                 k - 1 = GoDiv(point.EndCapSides, 2))[1]]

\* Draw end cap (for j := 0; j <= EndCapSides/2; j++).
EndCap(point, headingEnd) ==
    [k \in 1..(GoDiv(point.EndCapSides, 2) + 1) |->
        outPoint(Offset(point, headingEnd + 90 - FacetAngle(k - 1, point.EndCapSides)),
                 k - 1 = GoDiv(point.EndCapSides, 2))[1]]

\* A tag on the passes at the two ends of the path instead.
IsLastPointAtEnds(n, i, d) == (i = n - 1 /\ d = 1) \/ (i = 0 /\ d = -1)

IsLastPoint(n, i, d) == (i = n - 2 /\ d = 1) \/ (i = 1 /\ d = -1)

\* A join that computes the intersection whatever the headings are.
JoinIntersecting(polygon, i, d) ==
    LET n == Len(polygon.Points)
        point == polygon.Points[i + 1]
        headingPrev == IF d = 1 THEN polygon.Headings[i] ELSE polygon.Headings[i + 1]
        headingNext == IF d = 1 THEN polygon.Headings[i + 1] ELSE polygon.Headings[i]
    IN outPoint([p1 |-> Offset(polygon.Points[i - d + 1], headingPrev + 90 * d),
                 p2 |-> Offset(point, headingPrev + 90 * d),
                 p3 |-> Offset(point, headingNext + 90 * d),
                 p4 |-> Offset(polygon.Points[i + d + 1], headingNext + 90 * d)],
                IsLastPoint(n, i, d))

\* Join together two pen strokes at the interior index i (0-based).
Join(polygon, i, d) ==
    LET n == Len(polygon.Points)
        point == polygon.Points[i + 1]
        headingPrev == IF d = 1 THEN polygon.Headings[i] ELSE polygon.Headings[i + 1]
        headingNext == IF d = 1 THEN polygon.Headings[i + 1] ELSE polygon.Headings[i]
    IN IF headingPrev = headingNext
       THEN outPoint(Offset(point, headingPrev + 90 * d), IsLastPoint(n, i, d))
       ELSE LET pointPrev == polygon.Points[i - d + 1]
                pointNext == polygon.Points[i + d + 1]
                headingEdgePrev == headingPrev + 90 * d
                headingEdgeNext == headingNext + 90 * d
            IN outPoint([p1 |-> Offset(pointPrev, headingEdgePrev),
                         p2 |-> Offset(point, headingEdgePrev),
                         p3 |-> Offset(point, headingEdgeNext),
                         p4 |-> Offset(pointNext, headingEdgeNext)],
                        IsLastPoint(n, i, d))

\* What one pass of the `for` loop appends at index i.
Visit(polygon, i, d, indent) ==
    LET n == Len(polygon.Points)
        point == polygon.Points[i + 1]
    IN IF i = 0
       THEN BeginCap(point, polygon.Headings[1]) \o outNewLine(indent)
       ELSE IF i = n - 1
       THEN (IF n > 2 THEN outNewLine(indent) ELSE <<>>)
            \o EndCap(point, polygon.Headings[i])
            \o (IF n > 2 THEN outNewLine(indent) ELSE <<>>)
       ELSE Join(polygon, i, d)

\* A direction flip one index late, and a break after index 0 instead of 1.
NextDirLate(n, i, d) == IF i = n /\ d = 1 THEN -1 ELSE d

LoopBreaksAtZero(i, d) == i = 0 /\ d = -1

\* Loop control: the direction after index i, and whether the loop breaks.
NextDir(n, i, d) == IF i = n - 1 /\ d = 1 THEN -1 ELSE d

LoopBreaks(i, d) == i = 1 /\ d = -1

RECURSIVE Traverse(_, _, _, _)
Traverse(polygon, i, d, indent) ==
    LET d2 == NextDir(Len(polygon.Points), i, d)
    IN Visit(polygon, i, d, indent)
       \o (IF LoopBreaks(i, d2) THEN <<>> ELSE Traverse(polygon, i + d2, d2, indent))

writePolygon(polygon, indent) ==
    outBeginPolygon(indent)
    \o (IF Len(polygon.Points) = 1
        THEN DegenerateCap(polygon.Points[1])
        ELSE Traverse(polygon, 0, 1, indent))
    \o outEndPolygon(indent)

\* ----------------------------------------------------------- turtle helpers

\* A pendown that resets the points of the path and keeps its headings.
NewPolygonKeepsHeadings(x, y, size, sides) ==
    [Points |-> <<[X |-> x, Y |-> y, Thickness |-> size, EndCapSides |-> sides]>>,
     Headings |-> turtlePolygon.Headings]

\* The path pendown starts: one point, no heading.
NewPolygon(x, y, size, sides) ==
    [Points |-> <<[X |-> x, Y |-> y, Thickness |-> size, EndCapSides |-> sides]>>,
     Headings |-> <<>>]

\* A forward that appends the point and forgets the heading.
AppendPointOnly(polygon, x, y, size, sides, hdg) ==
    [Points |-> Append(polygon.Points,
                       [X |-> x, Y |-> y, Thickness |-> size, EndCapSides |-> sides]),
     Headings |-> polygon.Headings]

\* The two appends of forward and setpos.
AppendPoint(polygon, x, y, size, sides, hdg) ==
    [Points |-> Append(polygon.Points,
                       [X |-> x, Y |-> y, Thickness |-> size, EndCapSides |-> sides]),
     Headings |-> Append(polygon.Headings, hdg)]

\* The check of penup.
BadPolygon(polygon) == Len(polygon.Points) /= Len(polygon.Headings) + 1

\* The check of end_cap_sides without its lower bound.
OddEndCapSides(v) == GoRem(v, 2) = 1

\* The check of end_cap_sides.
InvalidEndCapSides(v) == v < 2 \/ GoRem(v, 2) = 1

\* A left that keeps the heading in 0..359.
TurnLeftNormalized(hdg, deg) == (hdg + deg) % 360

\* turtleHeading += deg
TurnLeft(hdg, deg) == hdg + deg

\* turtleHeading -= deg
TurnRight(hdg, deg) == hdg - deg

\* ------------------------------------------------------------------ actions

\* Nothing is being outlined or formatted step by step.
LoopIdle == [pc |-> "idle", i |-> 0, d |-> 1, visits |-> <<>>]

FmtIdle == [pc |-> "idle", n |-> [neg |-> FALSE, int |-> 0, frac |-> 0], str |-> <<>>]

Init ==
    /\ turtlePendown = FALSE
    /\ turtlePenSize = 1
    /\ turtleEndCapSides = 60
    /\ turtleX = 0
    /\ turtleY = 0
    /\ turtleHeading = 0
    /\ turtlePolygon = [Points |-> <<>>, Headings |-> <<>>]
    /\ output = <<>>
    /\ indentLevel = 0
    /\ stdout = <<>>
    /\ pc = "running"
    /\ fatalMsg = ""
    /\ last = [op |-> "", ret |-> <<>>]
    /\ sumTurn = 0
    /\ nCmds = 0
    /\ loop = LoopIdle
    /\ fmt = FmtIdle

\* The script is running and makes one more call.
Running == pc = "running" /\ nCmds < MaxCmds

\* The call returns ret (<<>> is undefined) to the script.
Called(op, ret) ==
    /\ last' = [op |-> op, ret |-> ret]
    /\ nCmds' = nCmds + 1

\* log.Fatal: the process exits, nothing more is printed.
LogFatal(msg) ==
    /\ pc' = "fatal"
    /\ fatalMsg' = msg
    /\ stdout' = stdout

NoFatal == UNCHANGED <<pc, fatalMsg, stdout>>

\* Text that goes to standard output at once instead of into output.
EmitPrint(tokens) ==
    /\ output' = output \o tokens
    /\ stdout' = stdout \o tokens
    /\ UNCHANGED <<pc, fatalMsg>>

\* output += text
Emit(tokens) ==
    /\ output' = output \o tokens
    /\ NoFatal

\* A pendown that restarts the path whether or not the pen is down.
PenDownAlways(down) == TRUE

\* if !turtlePendown
PenDownTakesEffect(down) == ~down

\* A penup that leaves the pen down.
PenStaysDown(down) == down

\* turtlePendown = false
PenAfterUp(down) == FALSE

pendown ==
    /\ Running
    /\ IF PenDownTakesEffect(turtlePendown)
       THEN /\ turtlePendown' = TRUE
            /\ turtlePolygon' =
                   NewPolygon(turtleX, turtleY, turtlePenSize, turtleEndCapSides)
       ELSE UNCHANGED <<turtlePendown, turtlePolygon>>
    /\ Called("pendown", <<>>)
    /\ NoFatal
    /\ UNCHANGED <<turtlePenSize, turtleEndCapSides, turtleX, turtleY, turtleHeading,
                   output, indentLevel, sumTurn>>
    /\ UNCHANGED steps

penup ==
    /\ Running
    /\ IF turtlePendown
       THEN /\ turtlePendown' = PenAfterUp(turtlePendown)
            /\ IF BadPolygon(turtlePolygon)
               THEN LogFatal("Bad polygon") /\ UNCHANGED output
               ELSE Emit(writePolygon(turtlePolygon, indentLevel))
       ELSE NoFatal /\ UNCHANGED <<turtlePendown, output>>
    /\ Called("penup", <<>>)
    /\ UNCHANGED <<turtlePenSize, turtleEndCapSides, turtleX, turtleY, turtleHeading,
                   turtlePolygon, indentLevel, sumTurn>>
    /\ UNCHANGED steps

pensizeGet ==
    /\ Running
    /\ Called("pensize", <<turtlePenSize>>)
    /\ NoFatal
    /\ UNCHANGED <<turtle, output, indentLevel, sumTurn>>
    /\ UNCHANGED steps

\* A pensize that also restyles the point the turtle stands on.
pensizeRestyles ==
    /\ Running
    /\ \E v \in PenSizeArgs :
        /\ turtlePenSize' = v
        /\ turtlePolygon' =
               IF turtlePendown
               THEN [turtlePolygon EXCEPT
                        !.Points[Len(turtlePolygon.Points)].Thickness = v]
               ELSE turtlePolygon
    /\ Called("pensize", <<>>)
    /\ NoFatal
    /\ UNCHANGED <<turtlePendown, turtleEndCapSides, turtleX, turtleY, turtleHeading,
                   output, indentLevel, sumTurn>>
    /\ UNCHANGED steps

pensize ==
    /\ Running
    /\ \E v \in PenSizeArgs : turtlePenSize' = v
    /\ Called("pensize", <<>>)
    /\ NoFatal
    /\ UNCHANGED <<turtlePendown, turtleEndCapSides, turtleX, turtleY, turtleHeading,
                   turtlePolygon, output, indentLevel, sumTurn>>
    /\ UNCHANGED steps

end_cap_sidesGet ==
    /\ Running
    /\ Called("end_cap_sides", <<turtleEndCapSides>>)
    /\ NoFatal
    /\ UNCHANGED <<turtle, output, indentLevel, sumTurn>>
    /\ UNCHANGED steps

end_cap_sides ==
    /\ Running
    /\ \E v \in EndCapArgs :
        /\ turtleEndCapSides' = v
        /\ IF InvalidEndCapSides(v)
           THEN LogFatal("Invalid end_cap_sides value")
           ELSE NoFatal
    /\ Called("end_cap_sides", <<>>)
    /\ UNCHANGED <<turtlePendown, turtlePenSize, turtleX, turtleY, turtleHeading,
                   turtlePolygon, output, indentLevel, sumTurn>>
    /\ UNCHANGED steps

forward ==
    /\ Running
    /\ \E d \in ForwardArgs :
        LET x == turtleX + d * degCos(turtleHeading)
            y == turtleY + d * degSin(turtleHeading)
        IN /\ turtleX' = x
           /\ turtleY' = y
           /\ turtlePolygon' =
                  IF turtlePendown
                  THEN AppendPoint(turtlePolygon, x, y, turtlePenSize,
                                   turtleEndCapSides, turtleHeading)
                  ELSE turtlePolygon
    /\ Called("forward", <<>>)
    /\ NoFatal
    /\ UNCHANGED <<turtlePendown, turtlePenSize, turtleEndCapSides, turtleHeading,
                   output, indentLevel, sumTurn>>
    /\ UNCHANGED steps

right ==
    /\ Running
    /\ \E deg \in TurnArgs :
        /\ turtleHeading' = TurnRight(turtleHeading, deg)
        /\ sumTurn' = sumTurn - deg
    /\ Called("right", <<>>)
    /\ NoFatal
    /\ UNCHANGED <<turtlePendown, turtlePenSize, turtleEndCapSides, turtleX, turtleY,
                   turtlePolygon, output, indentLevel>>
    /\ UNCHANGED steps

left ==
    /\ Running
    /\ \E deg \in TurnArgs :
        /\ turtleHeading' = TurnLeft(turtleHeading, deg)
        /\ sumTurn' = sumTurn + deg
    /\ Called("left", <<>>)
    /\ NoFatal
    /\ UNCHANGED <<turtlePendown, turtlePenSize, turtleEndCapSides, turtleX, turtleY,
                   turtlePolygon, output, indentLevel>>
    /\ UNCHANGED steps

setpos ==
    /\ Running
    /\ \E x \in PosArgs, y \in PosArgs :
        /\ Atan2Exact(y - turtleY, x - turtleX)
        /\ LET thisHeading == radToDegAtan2(y - turtleY, x - turtleX)
           IN /\ turtleX' = x
              /\ turtleY' = y
              /\ turtlePolygon' =
                     IF turtlePendown
                     THEN AppendPoint(turtlePolygon, x, y, turtlePenSize,
                                      turtleEndCapSides, thisHeading)
                     ELSE turtlePolygon
    /\ Called("setpos", <<>>)
    /\ NoFatal
    /\ UNCHANGED <<turtlePendown, turtlePenSize, turtleEndCapSides, turtleHeading,
                   output, indentLevel, sumTurn>>
    /\ UNCHANGED steps

heading ==
    /\ Running
    /\ Called("heading", <<turtleHeading>>)
    /\ NoFatal
    /\ UNCHANGED <<turtle, output, indentLevel, sumTurn>>
    /\ UNCHANGED steps

\* wrap(name, fn), up to the call of fn: the calls fn makes come next.
wrap ==
    /\ Running
    /\ Emit(outBeginBlock(indentLevel))
    /\ indentLevel' = indentLevel + 1
    /\ Called("wrap", <<>>)
    /\ UNCHANGED <<turtle, sumTurn>>
    /\ UNCHANGED steps

\* fn returns (or throws: wrap ignores the error) and wrap finishes.
wrapReturn ==
    /\ pc = "running"
    /\ indentLevel > 0
    /\ indentLevel' = indentLevel - 1
    /\ Emit(outEndBlock(indentLevel - 1))
    /\ UNCHANGED <<turtle, last, sumTurn, nCmds>>
    /\ UNCHANGED steps

\* forward() with no argument: toFloat ends the run (so do right, left, setpos).
undefinedArgument ==
    /\ Running
    /\ Called("forward", <<>>)
    /\ LogFatal("Undefined value passed")
    /\ UNCHANGED <<turtle, output, indentLevel, sumTurn>>
    /\ UNCHANGED steps

\* vm.Run returns an error: a syntax error, an exception, an unknown name.
scriptError ==
    /\ pc = "running"
    /\ indentLevel = 0
    /\ LogFatal("JavaScript error")
    /\ UNCHANGED <<turtle, output, indentLevel, last, sumTurn, nCmds>>
    /\ UNCHANGED steps

\* A main that closes a stroke the script left open before it prints.
mainClosesStroke ==
    /\ pc = "running"
    /\ indentLevel = 0
    /\ pc' = "done"
    /\ output' = IF turtlePendown
                 THEN output \o writePolygon(turtlePolygon, indentLevel)
                 ELSE output
    /\ stdout' = output'
    /\ UNCHANGED <<turtle, indentLevel, fatalMsg, last, sumTurn, nCmds>>
    /\ UNCHANGED steps

\* vm.Run returns, jsToScad returns output and main prints it.
main ==
    /\ pc = "running"
    /\ indentLevel = 0
    /\ pc' = "done"
    /\ stdout' = output
    /\ UNCHANGED <<turtle, output, indentLevel, fatalMsg, last, sumTurn, nCmds>>
    /\ UNCHANGED steps

Next ==
    \/ pendown
    \/ penup
    \/ pensizeGet
    \/ pensize
    \/ end_cap_sidesGet
    \/ end_cap_sides
    \/ forward
    \/ right
    \/ left
    \/ setpos
    \/ heading
    \/ wrap
    \/ wrapReturn
    \/ undefinedArgument
    \/ scriptError
    \/ main

Spec == Init /\ [][Next]_vars

\* ------------------------------------------------- formatFloat, step by step

\* Everything but formatFloat's own position.
script == <<turtle, output, indentLevel, stdout, pc, fatalMsg, last, sumTurn, nCmds>>

\* A float64 argument: its sign, its integer part and its fraction counted in
\* units of 10^-7, one decimal digit more than FormatFloat keeps.  The
\* fractions have every seventh digit below, at and above the half, an odd and
\* an even sixth digit, and a run of nines that carries.
IntArgs == {0, 1, 2, 9, 10}
FracArgs ==
    {a * 1000000 + b * 10 + c : a \in {0, 5, 9}, b \in {0, 1, 2, 99999}, c \in {0, 1, 5, 9}}
FloatArgs == [neg : BOOLEAN, int : IntArgs, frac : FracArgs]

\* The precision handed to strconv.FormatFloat, and 10^Prec.
Prec == 6
Micro == 1000000

Digit(k) == <<"0", "1", "2", "3", "4", "5", "6", "7", "8", "9">>[k + 1]

RECURSIVE Itoa(_)
Itoa(k) == IF k < 10 THEN <<Digit(k)>> ELSE Itoa(k \div 10) \o <<Digit(k % 10)>>

RECURSIVE Pow10(_)
Pow10(e) == IF e = 0 THEN 1 ELSE 10 * Pow10(e - 1)

\* The fraction's digits, zero-padded to Prec places.
FixedDigits(k) == [j \in 1..Prec |-> Digit((k \div Pow10(Prec - j)) % 10)]

\* strconv rounds the exact decimal value to the nearest, a tie to even: the
\* absolute value in units of 10^-6.
Round(n) ==
    LET units == n.int * 10 * Micro + n.frac
        q == units \div 10
        r == units % 10
    IN  IF r > 5 \/ (r = 5 /\ q % 2 = 1) THEN q + 1 ELSE q

\* strconv.FormatFloat(n, 'f', 6, 64): sign, integer digits, point, 6 digits.
FormatFloat(n) ==
    LET micro == Round(n)
    IN  (IF n.neg THEN <<"-">> ELSE <<>>)
            \o Itoa(micro \div Micro) \o <<".">> \o FixedDigits(micro % Micro)

AllZeroes(t) == Len(t) >= 1 /\ \A k \in 1..Len(t) : t[k] = "0"

\* A pattern without the optional point: 0+$
StripMatchesZeroesOnly(t) == AllZeroes(t)

\* The text t, which runs to the end of the string, matches \.?0+$
StripMatches(t) ==
    \/ AllZeroes(t)
    \/ Len(t) >= 2 /\ t[1] = "." /\ AllZeroes(Tail(t))

\* stripZeroes.ReplaceAllString(str, ""): the leftmost match runs to the end
\* of the string and is deleted.
ReplaceAllString(str) ==
    LET starts == {s \in 1..Len(str) : StripMatches(SubSeq(str, s, Len(str)))}
    IN  IF starts = {} THEN str
        ELSE SubSeq(str, 1, (CHOOSE s \in starts : \A u \in starts : s <= u) - 1)

\* if str == "-0" { str = "0" }
NegativeZero(str) == IF str = <<"-", "0">> THEN <<"0">> ELSE str

\* formatFloat is called with one of the arguments.
InitFormat ==
    /\ turtlePendown = FALSE
    /\ turtlePenSize = 1
    /\ turtleEndCapSides = 60
    /\ turtleX = 0
    /\ turtleY = 0
    /\ turtleHeading = 0
    /\ turtlePolygon = [Points |-> <<>>, Headings |-> <<>>]
    /\ output = <<>>
    /\ indentLevel = 0
    /\ stdout = <<>>
    /\ pc = "running"
    /\ fatalMsg = ""
    /\ last = [op |-> "", ret |-> <<>>]
    /\ sumTurn = 0
    /\ nCmds = 0
    /\ loop = LoopIdle
    /\ fmt \in {[pc |-> "call", n |-> n, str |-> <<>>] : n \in FloatArgs}

fmtFormatFloat ==
    /\ fmt.pc = "call"
    /\ fmt' = [fmt EXCEPT !.pc = "formatted", !.str = FormatFloat(fmt.n)]
    /\ UNCHANGED <<script, loop>>

fmtStripZeroes ==
    /\ fmt.pc = "formatted"
    /\ fmt' = [fmt EXCEPT !.pc = "stripped", !.str = ReplaceAllString(fmt.str)]
    /\ UNCHANGED <<script, loop>>

fmtReturn ==
    /\ fmt.pc = "stripped"
    /\ fmt' = [fmt EXCEPT !.pc = "done", !.str = NegativeZero(fmt.str)]
    /\ UNCHANGED <<script, loop>>

NextFormat ==
    \/ fmtFormatFloat
    \/ fmtStripZeroes
    \/ fmtReturn

SpecFormat == InitFormat /\ [][NextFormat]_vars

\* ------------------------------------------------ writePolygon, step by step

\* The longest path that is outlined step by step.
MaxPoints == 4

\* What the script does between pendown and penup: it turns left by one of
\* OutlineTurns and goes forward, or it jumps with setpos, and it may change
\* the pen between two points.
OutlineTurns == {0, 90, 180}
OutlineSizes == {[k \in 1..MaxPoints |-> 1], [k \in 1..MaxPoints |-> 1 + (k % 2)]}
OutlineSides == {[k \in 1..MaxPoints |-> 2], [k \in 1..MaxPoints |-> IF k = 1 THEN 2 ELSE 4]}

\* The turtle right after pendown at the origin.
PenDownAt(size, sides) ==
    [X |-> 0, Y |-> 0, Heading |-> 0, polygon |-> NewPolygon(0, 0, size, sides)]

\* The turtle after left(turn), forward(dist) with the pen down.
ForwardFrom(st, turn, dist, size, sides) ==
    LET hdg == TurnLeft(st.Heading, turn)
        x == st.X + dist * degCos(hdg)
        y == st.Y + dist * degSin(hdg)
    IN  [X |-> x, Y |-> y, Heading |-> hdg,
         polygon |-> AppendPoint(st.polygon, x, y, size, sides, hdg)]

\* The turtle after setpos(x, y) with the pen down.
SetPosFrom(st, x, y, size, sides) ==
    [X |-> x, Y |-> y, Heading |-> st.Heading,
     polygon |-> AppendPoint(st.polygon, x, y, size, sides,
                             radToDegAtan2(y - st.Y, x - st.X))]

\* One move of the script: left(turn) and forward(dist), or setpos(x, y).
OutlineMoves ==
    ({"forward"} \X OutlineTurns \X ForwardArgs) \cup ({"setpos"} \X PosArgs \X PosArgs)

\* setpos is offered the displacements whose atan2 is exact, as in setpos.
CanMove(st, m) == m[1] = "setpos" => Atan2Exact(m[3] - st.Y, m[2] - st.X)

Move(st, m, size, sides) ==
    IF m[1] = "forward"
    THEN ForwardFrom(st, m[2], m[3], size, sides)
    ELSE SetPosFrom(st, m[2], m[3], size, sides)

\* The turtle after pendown and the first k - 1 moves: a path of k points.
RECURSIVE Drawn(_, _, _, _)
Drawn(moves, k, size, sides) ==
    IF k = 1 THEN PenDownAt(size[1], sides[1])
    ELSE Move(Drawn(moves, k - 1, size, sides), moves[k - 1], size[k], sides[k])

RECURSIVE Drawable(_, _, _, _)
Drawable(moves, k, size, sides) ==
    IF k = 1 THEN TRUE
    ELSE /\ Drawable(moves, k - 1, size, sides)
         /\ CanMove(Drawn(moves, k - 1, size, sides), moves[k - 1])

\* penup has found the pen down and the path well-formed, and calls
\* writePolygon(turtlePolygon).
InitOutline ==
    \E k \in 1..MaxPoints, size \in OutlineSizes, sides \in OutlineSides :
    \E moves \in [1..(k - 1) -> OutlineMoves] :
    LET st == Drawn(moves, k, size, sides)
    IN  /\ Drawable(moves, k, size, sides)
        /\ turtlePendown = FALSE
        /\ turtlePenSize = st.polygon.Points[Len(st.polygon.Points)].Thickness
        /\ turtleEndCapSides = st.polygon.Points[Len(st.polygon.Points)].EndCapSides
        /\ turtleX = st.X
        /\ turtleY = st.Y
        /\ turtleHeading = st.Heading
        /\ turtlePolygon = st.polygon
        /\ output = <<>>
        /\ indentLevel = 0
        /\ stdout = <<>>
        /\ pc = "running"
        /\ fatalMsg = ""
        /\ last = [op |-> "", ret |-> <<>>]
        /\ sumTurn = st.Heading
        /\ nCmds = 0
        /\ loop = [pc |-> "call", i |-> 0, d |-> 1, visits |-> <<>>]
        /\ fmt = FmtIdle

\* outBeginPolygon(), then the degenerate case or d := 1, i := 0.
writeBegin ==
    /\ loop.pc = "call"
    /\ IF Len(turtlePolygon.Points) = 1
       THEN /\ output' = output \o outBeginPolygon(indentLevel)
                             \o DegenerateCap(turtlePolygon.Points[1])
                             \o outEndPolygon(indentLevel)
            /\ loop' = [loop EXCEPT !.pc = "done"]
       ELSE /\ output' = output \o outBeginPolygon(indentLevel)
            /\ loop' = [loop EXCEPT !.pc = "loop"]
    /\ UNCHANGED <<turtle, indentLevel, stdout, pc, fatalMsg, last, sumTurn, nCmds, fmt>>

\* One pass of the loop: the body at (i, d), then the loop control.
writePass ==
    /\ loop.pc = "loop"
    /\ LET d2 == NextDir(Len(turtlePolygon.Points), loop.i, loop.d)
       IN  /\ output' = output \o Visit(turtlePolygon, loop.i, loop.d, indentLevel)
           /\ loop' = [pc |-> IF LoopBreaks(loop.i, d2) THEN "break" ELSE "loop",
                       i |-> IF LoopBreaks(loop.i, d2) THEN loop.i ELSE loop.i + d2,
                       d |-> d2,
                       visits |-> Append(loop.visits, <<loop.i, loop.d>>)]
    /\ UNCHANGED <<turtle, indentLevel, stdout, pc, fatalMsg, last, sumTurn, nCmds, fmt>>

\* outEndPolygon() after the loop.
writeEnd ==
    /\ loop.pc = "break"
    /\ output' = output \o outEndPolygon(indentLevel)
    /\ loop' = [loop EXCEPT !.pc = "done"]
    /\ UNCHANGED <<turtle, indentLevel, stdout, pc, fatalMsg, last, sumTurn, nCmds, fmt>>

NextOutline ==
    \/ writeBegin
    \/ writePass
    \/ writeEnd

SpecOutline == InitOutline /\ [][NextOutline]_vars

\* ------------------------------------------------------- reading the output

IsPolygonStart(out, k) == out[k].t = "beginPolygon"

NumPolygons(out) == Cardinality({k \in 1..Len(out) : IsPolygonStart(out, k)})

IsPrefix(a, b) == Len(a) <= Len(b) /\ SubSeq(b, 1, Len(a)) = a

\* The k-th polygon block of out, from its beginPolygon to its endPolygon.
PolygonAt(out, b) ==
    LET e == CHOOSE e \in b..Len(out) :
                 /\ out[e].t = "endPolygon"
                 /\ \A m \in b..(e - 1) : out[m].t /= "endPolygon"
    IN SubSeq(out, b, e)

FirstPolygon(out) ==
    PolygonAt(out, CHOOSE b \in 1..Len(out) :
                       /\ IsPolygonStart(out, b)
                       /\ \A m \in 1..(b - 1) : ~IsPolygonStart(out, m))

LastPolygon(out) ==
    PolygonAt(out, CHOOSE b \in 1..Len(out) :
                       /\ IsPolygonStart(out, b)
                       /\ \A m \in (b + 1)..Len(out) : ~IsPolygonStart(out, m))

IsPointToken(tok) == tok.t = "point"

\* The vertices of a block, in order.
Vertices(block) == SelectSeq(block, IsPointToken)

IsOffset(at) == DOMAIN at = {"X", "Y", "Thickness", "angle"}

\* The path point a vertex was computed around.
Centre(at) ==
    LET o == IF IsOffset(at) THEN at ELSE at.p2
    IN [X |-> o.X, Y |-> o.Y, Thickness |-> o.Thickness]

CentreOfPoint(point) == [X |-> point.X, Y |-> point.Y, Thickness |-> point.Thickness]

\* Twice the coordinates of an offset point whose angle is a multiple of 90.
Twice(p) ==
    [x |-> 2 * p.X + p.Thickness * degCos(p.angle),
     y |-> 2 * p.Y + p.Thickness * degSin(p.angle)]

RightAngles(at) == \A p \in {at.p1, at.p2, at.p3, at.p4} : p.angle % 90 = 0

\* denom := (x1-x2)*(y3-y4) - (y1-y2)*(x3-x4), four times over.
Denominator(at) ==
    LET q1 == Twice(at.p1)
        q2 == Twice(at.p2)
        q3 == Twice(at.p3)
        q4 == Twice(at.p4)
    IN  (q1.x - q2.x) * (q3.y - q4.y) - (q1.y - q2.y) * (q3.x - q4.x)

\* The division by denom divides by zero: points 1 and 2 or points 3 and 4
\* are computed from the same operands (a segment of zero length, where the
\* quotient is 0/0), or the two lines are parallel.
DenominatorIsZero(at) ==
    \/ at.p1 = at.p2
    \/ at.p3 = at.p4
    \/ RightAngles(at) /\ Denominator(at) = 0

\* This step is the script's call of op.
StepIs(op) == last'.op = op /\ nCmds' = nCmds + 1

\* The pen is up and the path of the last stroke is still in turtlePolygon,
\* its polygon the last one of the output.
StrokeDone == ~turtlePendown /\ Len(turtlePolygon.Points) >= 1

\* -------------------------------------------------------------- properties

ValidSides(n) == n >= 2 /\ n % 2 = 0

\* C1: whenever the pen is down the path has one more point than headings:
\* pendown starts a path of 1 point and 0 headings, forward and setpos with the
\* pen down append one point and one heading each, and no other call changes
\* either length; so no run ends in penup's "Bad polygon" fatal error.
C1_PointsHeadings ==
    [][LET nPoints == Len(turtlePolygon.Points)
           nHeadings == Len(turtlePolygon.Headings)
           nPoints2 == Len(turtlePolygon'.Points)
           nHeadings2 == Len(turtlePolygon'.Headings)
           starts == StepIs("pendown") /\ ~turtlePendown
           moves == /\ StepIs("forward") \/ StepIs("setpos")
                    /\ turtlePendown
                    /\ pc' = "running"
       IN /\ turtlePendown' => nPoints2 = nHeadings2 + 1
          /\ fatalMsg' /= "Bad polygon"
          /\ starts => nPoints2 = 1 /\ nHeadings2 = 0
          /\ moves => nPoints2 = nPoints + 1 /\ nHeadings2 = nHeadings + 1
          /\ ~starts /\ ~moves => nPoints2 = nPoints /\ nHeadings2 = nHeadings
      ]_vars

\* A path grown by forward and setpos to three points, the pen still down.
C1_Witness ==
    /\ turtlePendown
    /\ last.op \in {"forward", "setpos"}
    /\ Len(turtlePolygon.Points) = 3

\* C2: a step appends a polygon block exactly when it takes the pen from down to
\* up; the block goes after everything already in the output, is one whole
\* polygon, and its vertices lie around the points of the path just closed,
\* beginning at the point where the pen went down.
C2_OnePolygonPerPenUp ==
    [][LET lifted == turtlePendown /\ ~turtlePendown'
           block == SubSeq(output', Len(output) + 1, Len(output'))
           verts == Vertices(block)
       IN /\ IsPrefix(output, output')
          /\ NumPolygons(output') = NumPolygons(output) + (IF lifted THEN 1 ELSE 0)
          /\ lifted =>
                /\ block = PolygonAt(output', Len(output) + 1)
                /\ Len(verts) >= 1
                /\ Centre(verts[1].at) = CentreOfPoint(turtlePolygon.Points[1])
                /\ {Centre(verts[k].at) : k \in 1..Len(verts)}
                       = {CentreOfPoint(turtlePolygon.Points[k]) :
                              k \in 1..Len(turtlePolygon.Points)}
      ]_vars

\* Two strokes closed one after the other, the second with a longer path.
C2_Witness ==
    /\ last.op = "penup"
    /\ NumPolygons(output) = 2
    /\ Len(Vertices(FirstPolygon(output))) < Len(Vertices(LastPolygon(output)))

\* C3: pendown with the pen down and penup with the pen up change nothing: not
\* the path, not a turtle attribute, not the output.
C3_RedundantPenCallsAreNoOps ==
    [][((StepIs("pendown") /\ turtlePendown) \/ (StepIs("penup") /\ ~turtlePendown))
           => UNCHANGED <<turtle, output, indentLevel, stdout, pc, fatalMsg, sumTurn>>
      ]_vars

\* pendown was called on a path that already had two points.
C3_Witness ==
    /\ last.op = "pendown"
    /\ turtlePendown
    /\ Len(turtlePolygon.Points) >= 2

\* C4: end_cap_sides(v) ends the run exactly when v < 2 or v is odd, so the
\* facet count of a run that has not ended so is even and at least 2, and so
\* is the count in every point of the path.
C4_EndCapSidesValid ==
    /\ (fatalMsg = "Invalid end_cap_sides value") <=> ~ValidSides(turtleEndCapSides)
    /\ \A k \in 1..Len(turtlePolygon.Points) :
           ValidSides(turtlePolygon.Points[k].EndCapSides)

\* end_cap_sides(3) ended a run in which end_cap_sides(4) had set a point's count.
C4_Witness ==
    /\ pc = "fatal"
    /\ fatalMsg = "Invalid end_cap_sides value"
    /\ turtleEndCapSides = 3
    /\ \E k \in 1..Len(turtlePolygon.Points) : turtlePolygon.Points[k].EndCapSides = 4

\* C5: a run that ends in a fatal error has printed nothing; only a run that
\* reached the end of the script prints, and then all of the output.
C5_NoPartialOutput ==
    /\ pc = "fatal" => stdout = <<>>
    /\ stdout /= <<>> => pc = "done" /\ stdout = output

\* A fatal error after a stroke had been written to the output.
C5_Witness ==
    /\ pc = "fatal"
    /\ fatalMsg = "Invalid end_cap_sides value"
    /\ NumPolygons(output) >= 1

\* The stroke just closed: its path, and the vertices of its polygon.
Path == turtlePolygon

PathLen == Len(turtlePolygon.Points)

StrokeVertices == Vertices(LastPolygon(output))

\* C6: a stroke of one point gives a polygon of exactly n vertices, n the facet
\* count of the point, the j-th at angle j*360/n around the point, and only
\* the last of them marked as last.
C6_DegenerateStroke ==
    (StrokeDone /\ PathLen = 1) =>
        LET point == Path.Points[1]
            n == point.EndCapSides
            block == LastPolygon(output)
            verts == Vertices(block)
        IN /\ Len(verts) = n
           /\ Len(block) = n + 2
           /\ \A k \in 1..Len(verts) :
                  /\ IsOffset(verts[k].at)
                  /\ Centre(verts[k].at) = CentreOfPoint(point)
                  /\ n * verts[k].at.angle = (k - 1) * 360
                  /\ verts[k].isLast = (k = n)

\* pendown and penup with nothing between them, with 4 facets and width 2.
C6_Witness ==
    /\ last.op = "penup"
    /\ StrokeDone
    /\ PathLen = 1
    /\ Path.Points[1].EndCapSides = 4
    /\ Path.Points[1].Thickness = 2

\* A path of at least two points, all headings equal, one width, one facet count.
StraightStroke ==
    /\ StrokeDone
    /\ PathLen >= 2
    /\ \A k \in 1..Len(Path.Headings) : Path.Headings[k] = Path.Headings[1]
    /\ \A k \in 1..PathLen :
           /\ Path.Points[k].Thickness = Path.Points[1].Thickness
           /\ Path.Points[k].EndCapSides = Path.Points[1].EndCapSides

\* C7 as stated: a straight stroke has 4 + capFacets vertices whatever its
\* number of points.
C7_Original ==
    StraightStroke => Len(StrokeVertices) = 4 + Path.Points[1].EndCapSides

\* C7, amended: a straight stroke of n points has capFacets + 2n - 2 vertices:
\* capFacets/2 + 1 in each cap and two for each interior point.
C7_StraightStrokeCount ==
    StraightStroke => Len(StrokeVertices) = Path.Points[1].EndCapSides + 2 * PathLen - 2

\* A straight stroke of four points.
C7_Witness ==
    /\ last.op = "penup"
    /\ StraightStroke
    /\ PathLen = 4

\* The path [(0,0),(1,0)] with heading [0], width 2 and 4 facets.
C8_Path ==
    [Points |-> <<[X |-> 0, Y |-> 0, Thickness |-> 2, EndCapSides |-> 4],
                  [X |-> 1, Y |-> 0, Thickness |-> 2, EndCapSides |-> 4]>>,
     Headings |-> <<0>>]

C8_Vertex(x, y, angle, isLast) ==
    [t |-> "point",
     at |-> [X |-> x, Y |-> y, Thickness |-> 2, angle |-> angle],
     isLast |-> isLast]

C8_BeginCap ==
    <<C8_Vertex(0, 0, -90, FALSE), C8_Vertex(0, 0, -180, FALSE), C8_Vertex(0, 0, -270, TRUE)>>

C8_EndCap ==
    <<C8_Vertex(1, 0, 90, FALSE), C8_Vertex(1, 0, 0, FALSE), C8_Vertex(1, 0, -90, TRUE)>>

\* C8 as stated: the two caps, and one more vertex on each side: 8 vertices.
C8_Original ==
    (StrokeDone /\ Path = C8_Path) =>
        LET verts == StrokeVertices
        IN /\ SubSeq(verts, 1, 3) = C8_BeginCap
           /\ \E k \in 1..(Len(verts) - 2) : SubSeq(verts, k, k + 2) = C8_EndCap
           /\ Len(verts) = 8

\* C8, amended: the polygon is the begin cap at -90, -180, -270 around (0,0)
\* followed by the end cap at 90, 0, -90 around (1,0) and nothing else: 6
\* vertices, the outer vertices of the caps being the corners of the sides.
C8_TwoPointStroke ==
    (StrokeDone /\ Path = C8_Path) => StrokeVertices = C8_BeginCap \o C8_EndCap

\* The stroke of C8 has been drawn and closed.
C8_Witness ==
    /\ last.op = "penup"
    /\ StrokeDone
    /\ Path = C8_Path

\* C9: the heading is the sum of the left() arguments minus the sum of the
\* right() arguments, not reduced to a range, and it is what heading() returns;
\* no other call changes it.  setpos with the pen down records atan2 of the
\* displacement as the segment's heading, and forward records the turtle's.
C9_HeadingIsSumOfTurns ==
    /\ turtleHeading = sumTurn
    /\ (last.op = "heading") => (last.ret = <<sumTurn>>)
    /\ (last.op = "setpos" /\ turtlePendown) =>
           Path.Headings[PathLen - 1] =
               radToDegAtan2(Path.Points[PathLen].Y - Path.Points[PathLen - 1].Y,
                             Path.Points[PathLen].X - Path.Points[PathLen - 1].X)
    /\ (last.op = "forward" /\ turtlePendown /\ pc = "running") =>
           Path.Headings[PathLen - 1] = sumTurn

\* After a full turn to the left, setpos recorded 45 degrees in the path and the
\* heading is still 360.
C9_Witness ==
    /\ last.op = "setpos"
    /\ turtlePendown
    /\ turtleHeading = 360
    /\ Path.Headings[PathLen - 1] = 45

\* C10: pendown and penup leave position, heading, width and facet count alone,
\* and a pendown that takes effect starts a path of one point, at the current
\* position with the current width and facet count, and no headings, whatever
\* the path before held.
C10_FreshPathPerStroke ==
    [][/\ (StepIs("pendown") \/ StepIs("penup")) =>
              UNCHANGED <<turtleX, turtleY, turtleHeading, turtlePenSize,
                          turtleEndCapSides>>
       /\ (StepIs("pendown") /\ ~turtlePendown) =>
              /\ turtlePendown'
              /\ turtlePolygon' =
                     [Points |-> <<[X |-> turtleX, Y |-> turtleY,
                                    Thickness |-> turtlePenSize,
                                    EndCapSides |-> turtleEndCapSides]>>,
                      Headings |-> <<>>]
      ]_vars

\* A second stroke begins away from the origin with a width set after the first
\* stroke, whose path had two points.
C10_Witness ==
    /\ last.op = "pendown"
    /\ turtlePendown
    /\ NumPolygons(output) = 1
    /\ LET verts == StrokeVertices
       IN \E k \in 1..Len(verts) : Centre(verts[k].at) /= Centre(verts[1].at)
    /\ Path = [Points |-> <<[X |-> turtleX, Y |-> turtleY, Thickness |-> 2,
                             EndCapSides |-> turtleEndCapSides]>>,
               Headings |-> <<>>]
    /\ <<turtleX, turtleY>> /= <<0, 0>>

\* C11: every point of a path has thickness > 0, whatever the script does
\* (pensize(0) included).
C11_ThicknessPositive ==
    \A k \in 1..Len(turtlePolygon.Points) : turtlePolygon.Points[k].Thickness > 0

\* C12: a point in the path keeps its x, y, thickness and facet count, and a
\* heading in the path its value, under every later call while the pen is
\* down: pensize(v) and end_cap_sides(v) reach only the points appended after
\* them.  pensize(), end_cap_sides() and heading() change no state.
C12_AppendedPointsAreFrozen ==
    [][/\ turtlePendown =>
              /\ IsPrefix(turtlePolygon.Points, turtlePolygon'.Points)
              /\ IsPrefix(turtlePolygon.Headings, turtlePolygon'.Headings)
       /\ (/\ StepIs("pensize") \/ StepIs("end_cap_sides") \/ StepIs("heading")
           /\ last'.ret /= <<>>) =>
              UNCHANGED <<turtle, output, indentLevel, stdout, pc, fatalMsg, sumTurn>>
      ]_vars

\* A point appended after end_cap_sides(4) and pensize(2) carries them; the
\* point before it keeps the width 1 and the 60 facets it was appended with.
C12_Witness ==
    /\ turtlePendown
    /\ PathLen = 2
    /\ Path.Points[1].Thickness = 1
    /\ Path.Points[1].EndCapSides = 60
    /\ Path.Points[2].Thickness = 2
    /\ Path.Points[2].EndCapSides = 4

\* C20: only a penup that takes the pen from down to up adds a polygon to the
\* output; when the script ends with the pen down, main prints the output as it
\* is, with no polygon for the path in progress.
C20_OnlyPenUpEmits ==
    [][/\ NumPolygons(output') > NumPolygons(output) =>
              StepIs("penup") /\ turtlePendown /\ ~turtlePendown'
       /\ pc' = "done" =>
              /\ output' = output
              /\ stdout' = output
              /\ NumPolygons(stdout') = NumPolygons(output)
      ]_vars

\* The script ended with a two-point path in progress after one closed stroke.
C20_Witness ==
    /\ pc = "done"
    /\ turtlePendown
    /\ PathLen = 2
    /\ NumPolygons(stdout) = 1

\* What a returned string denotes: its sign and its absolute value in units of
\* 10^-6.
PointAt(str) ==
    IF \E k \in 1..Len(str) : str[k] = "."
    THEN CHOOSE k \in 1..Len(str) : str[k] = "."
    ELSE Len(str) + 1

DigitValue(c) == CHOOSE k \in 0..9 : Digit(k) = c

RECURSIVE Atoi(_)
Atoi(digits) ==
    IF digits = <<>> THEN 0
    ELSE 10 * Atoi(SubSeq(digits, 1, Len(digits) - 1)) + DigitValue(digits[Len(digits)])

IsNumeral(str) ==
    LET body == IF str /= <<>> /\ str[1] = "-" THEN Tail(str) ELSE str
    IN  /\ body /= <<>>
        /\ \A k \in 1..Len(body) : body[k] = "." \/ \E v \in 0..9 : Digit(v) = body[k]
        /\ Cardinality({k \in 1..Len(body) : body[k] = "."}) <= 1
        /\ body[1] /= "."

ParseMicro(str) ==
    LET body == IF str[1] = "-" THEN Tail(str) ELSE str
        p == PointAt(body)
        whole == SubSeq(body, 1, p - 1)
        places == SubSeq(body, p + 1, Len(body))
    IN  Atoi(whole) * Micro + Atoi(places) * Pow10(Prec - Len(places))

\* C13: the string formatFloat returns denotes its argument rounded to 6
\* decimal places (at most half a unit of the sixth place away), has no
\* trailing zero after a decimal point and no trailing decimal point, is never
\* "-0" (a value that rounds to zero prints as "0", signed values keep their
\* sign), and keeps the integer part's own zeros: 10 prints as "10", 1.0 as
\* "1" and -2.5 as "-2.5".
C13_FormatFloat ==
    fmt.pc = "done" =>
        LET str == fmt.str
            n == fmt.n
            units == n.int * 10 * Micro + n.frac
            hasPoint == \E k \in 1..Len(str) : str[k] = "."
        IN  /\ IsNumeral(str)
            /\ str /= <<"-", "0">>
            /\ str[Len(str)] /= "."
            /\ hasPoint => str[Len(str)] /= "0"
            /\ Abs(10 * ParseMicro(str) - units) <= 5
            /\ (str[1] = "-") = (n.neg /\ ParseMicro(str) /= 0)
            /\ SubSeq(str, IF str[1] = "-" THEN 2 ELSE 1, PointAt(str) - 1)
                   = Itoa(ParseMicro(str) \div Micro)
            /\ n = [neg |-> FALSE, int |-> 1, frac |-> 0] => str = <<"1">>
            /\ n = [neg |-> FALSE, int |-> 10, frac |-> 0] => str = <<"1", "0">>
            /\ n = [neg |-> TRUE, int |-> 2, frac |-> 5000000] => str = <<"-", "2", ".", "5">>

\* formatFloat(-0.0000001) has returned "0".
C13_Witness ==
    /\ fmt.pc = "done"
    /\ fmt.n = [neg |-> TRUE, int |-> 0, frac |-> 1]
    /\ fmt.str = <<"0">>

\* The order in which a path of n points is to be visited: index and direction.
ExpectedVisits(n) ==
    [k \in 1..(2 * n - 2) |-> IF k <= n THEN <<k - 1, 1>> ELSE <<2 * n - 1 - k, -1>>]

TimesVisited(visits, i) == Cardinality({k \in 1..Len(visits) : visits[k][1] = i})

\* C14: for a path of n >= 2 points the traversal terminates (every pass can
\* be taken, fewer than 2n-2 passes have been made whenever one more starts)
\* and its passes are made at 0, 1, ..., n-1 with d = +1 and then n-2, ..., 1
\* with d = -1: index 0 and index n-1 once each, every interior index twice,
\* and the polygon written is the one penup appends.
C14_TraversalOrder ==
    LET n == PathLen
        seen == loop.visits
    IN  n >= 2 =>
            /\ IsPrefix(seen, ExpectedVisits(n))
            /\ loop.pc = "loop" =>
                   /\ Len(seen) < 2 * n - 2
                   /\ <<loop.i, loop.d>> = ExpectedVisits(n)[Len(seen) + 1]
                   /\ ENABLED writePass
            /\ loop.pc = "break" => ENABLED writeEnd
            /\ loop.pc \in {"break", "done"} =>
                   /\ seen = ExpectedVisits(n)
                   /\ TimesVisited(seen, 0) = 1
                   /\ TimesVisited(seen, n - 1) = 1
                   /\ \A i \in 1..(n - 2) : TimesVisited(seen, i) = 2
            /\ loop.pc = "done" => output = writePolygon(Path, indentLevel)

\* A path of 4 points has been outlined in 6 passes.
C14_Witness ==
    /\ loop.pc = "done"
    /\ PathLen = 4
    /\ loop.visits = <<<<0, 1>>, <<1, 1>>, <<2, 1>>, <<3, 1>>, <<2, -1>>, <<1, -1>>>>

\* What the pass that is being made appends to output.
Added == SubSeq(output', Len(output) + 1, Len(output'))

\* The pass that is about to be made joins two pen strokes with equal headings.
CollinearPass ==
    /\ loop.pc = "loop"
    /\ 0 < loop.i
    /\ loop.i < PathLen - 1
    /\ Path.Headings[loop.i] = Path.Headings[loop.i + 1]

\* C15: a pass at an interior index whose two headings are equal appends
\* exactly one vertex, points[i] offset by thickness/2 along headingPrev + 90*d;
\* no intersection of lines is computed for it.
C15_CollinearJoin ==
    [][CollinearPass =>
          LET point == Path.Points[loop.i + 1]
              headingPrev == IF loop.d = 1 THEN Path.Headings[loop.i]
                             ELSE Path.Headings[loop.i + 1]
          IN  /\ Len(Added) = 1
              /\ Added[1].t = "point"
              /\ Added[1].at = [X |-> point.X, Y |-> point.Y,
                                Thickness |-> point.Thickness,
                                angle |-> headingPrev + 90 * loop.d]
      ]_vars

\* forward(1), forward(1) after pendown: the middle point has been passed in
\* both directions, one vertex each time.
C15_Witness ==
    /\ loop.pc = "done"
    /\ PathLen = 3
    /\ Path.Headings = <<0, 0>>
    /\ Path.Points[3].X = 2
    /\ LET verts == Vertices(output)
           c == Path.Points[1].EndCapSides \div 2 + 1
       IN  /\ verts[c + 1].at = [X |-> 1, Y |-> 0, Thickness |-> Path.Points[2].Thickness,
                                 angle |-> 90]
           /\ verts[Len(verts)].at = [X |-> 1, Y |-> 0,
                                      Thickness |-> Path.Points[2].Thickness,
                                      angle |-> -90]

\* C16: every intersection vertex that is written has a denominator that is
\* not zero: where the two offset lines are parallel or a segment has zero
\* length the collinear-case vertex is written instead, so that no division by
\* zero occurs and every coordinate is finite.
C16_DenominatorGuarded ==
    \A k \in 1..Len(output) :
        (IsPointToken(output[k]) /\ ~IsOffset(output[k].at)) =>
            ~DenominatorIsZero(output[k].at)

\* The pass that is about to be made is at an interior index.
JoinPass ==
    /\ loop.pc = "loop"
    /\ 0 < loop.i
    /\ loop.i < PathLen - 1

LineBreak(tok) == tok.t \in {"newline", "endPolygon"}

\* C17: the vertex of a pass at an interior index is tagged is-last exactly at
\* i = n-2 with d = +1 and at i = 1 with d = -1, and in the finished polygon
\* the tagged vertices (two joins and the last vertex of each cap when n >= 3)
\* are exactly the vertices followed at once by a line break, so no line ends
\* with the space that follows an untagged vertex.
C17_IsLastTags ==
    [][/\ JoinPass =>
              /\ Len(Added) = 1
              /\ Added[1].t = "point"
              /\ Added[1].isLast <=> \/ loop.i = PathLen - 2 /\ loop.d = 1
                                     \/ loop.i = 1 /\ loop.d = -1
       /\ loop'.pc = "done" =>
              LET out == output'
              IN  /\ LineBreak(out[Len(out)])
                  /\ \A k \in 1..(Len(out) - 1) :
                         IsPointToken(out[k]) => (out[k].isLast <=> LineBreak(out[k + 1]))
                  /\ PathLen >= 3 =>
                         Cardinality({k \in 1..Len(out) :
                                        IsPointToken(out[k]) /\ out[k].isLast}) = 4
      ]_vars

\* A path of 4 points is finished: its joins at 1 and 2 are tagged once each.
C17_Witness ==
    /\ loop.pc = "done"
    /\ PathLen = 4
    /\ LET verts == Vertices(output)
           b == Path.Points[1].EndCapSides \div 2 + 1
       IN  /\ ~verts[b + 1].isLast
           /\ verts[b + 2].isLast
           /\ ~verts[Len(verts) - 1].isLast
           /\ verts[Len(verts)].isLast

\* The join vertex at lies on the side d of both pen strokes.
OnSide(at, headingPrev, headingNext, d) ==
    IF IsOffset(at) THEN at.angle = headingPrev + 90 * d
    ELSE /\ at.p1.angle = headingPrev + 90 * d
         /\ at.p2.angle = headingPrev + 90 * d
         /\ at.p3.angle = headingNext + 90 * d
         /\ at.p4.angle = headingNext + 90 * d

\* C18: with even facet counts the begin cap's c/2 + 1 vertices turn clockwise
\* from heading[0] - 90 to heading[0] - 270, which is the +90 side; the forward
\* leg stays on the +90 side; the end cap goes from heading[last-1] + 90 to
\* heading[last-1] - 90; the backward leg stays on the -90 side.
C18_CapsSpanHalfTurn ==
    (loop.pc = "done" /\ PathLen >= 2) =>
        LET n == PathLen
            verts == Vertices(output)
            c0 == Path.Points[1].EndCapSides
            cN == Path.Points[n].EndCapSides
            h0 == Path.Headings[1]
            hN == Path.Headings[n - 1]
            b == c0 \div 2 + 1
            e == b + (n - 2) + 1
            f == e + cN \div 2
        IN  /\ ValidSides(c0) /\ ValidSides(cN)
            /\ Len(verts) = f + (n - 2)
            /\ \A k \in 1..b :
                   /\ IsOffset(verts[k].at)
                   /\ Centre(verts[k].at) = CentreOfPoint(Path.Points[1])
            /\ verts[1].at.angle = h0 - 90
            /\ verts[b].at.angle = h0 - 270
            /\ (verts[b].at.angle - (h0 + 90)) % 360 = 0
            /\ \A k \in 1..(b - 1) : verts[k + 1].at.angle < verts[k].at.angle
            /\ \A i \in 1..(n - 2) :
                   OnSide(verts[b + i].at, Path.Headings[i], Path.Headings[i + 1], 1)
            /\ \A k \in e..f :
                   /\ IsOffset(verts[k].at)
                   /\ Centre(verts[k].at) = CentreOfPoint(Path.Points[n])
            /\ verts[e].at.angle = hN + 90
            /\ verts[f].at.angle = hN - 90
            /\ \A k \in e..(f - 1) : verts[k + 1].at.angle < verts[k].at.angle
            /\ \A i \in 1..(n - 2) :
                   OnSide(verts[f + (n - 1 - i)].at,
                          Path.Headings[i + 1], Path.Headings[i], -1)

\* A corner with 2 facets at the begin cap and 4 at the end cap is finished.
C18_Witness ==
    /\ loop.pc = "done"
    /\ PathLen = 3
    /\ Path.Headings = <<0, 90>>
    /\ Path.Points[1].EndCapSides = 2
    /\ Path.Points[3].EndCapSides = 4
    /\ Len(Vertices(output)) = 7

\* C19: on a path of n >= 2 points with one heading less than points, every
\* pass is made at an index of the path, and the points at i, i-d, i+d and the
\* headings at 0, i-1, i that its branch reads exist (0-based, as in the code).
C19_IndexesInRange ==
    (loop.pc = "loop" /\ ~BadPolygon(Path) /\ PathLen >= 2) =>
        LET n == PathLen
            i == loop.i
            d == loop.d
            points == 0..(n - 1)
            headings == 0..(Len(Path.Headings) - 1)
        IN  /\ d \in {-1, 1}
            /\ i \in points
            /\ i = 0 => 0 \in headings
            /\ (i /= 0 /\ i = n - 1) => i - 1 \in headings
            /\ (i /= 0 /\ i /= n - 1) =>
                   /\ {i - 1, i} \subseteq headings
                   /\ {i - d, i + d} \subseteq points

\* A backward pass at index 1 of a 4-point path that turns there is about to
\* read the points at 2 and 0.
C19_Witness ==
    /\ loop.pc = "loop"
    /\ PathLen = 4
    /\ loop.i = 1
    /\ loop.d = -1
    /\ Path.Headings[1] /= Path.Headings[2]

====
